---- MODULE Spec2Model ----
(***************************************************************************)
(* Model of bnktool.py: the InstrumentBank class (parse, extract, update,  *)
(* empty, to_file, close) and the __main__ session that drives it.         *)
(* Files are byte sequences, paths and item ids are character sequences.   *)
(***************************************************************************)
EXTENDS Integers, Sequences, FiniteSets, TLC

VARIABLES fs, fs0, input, pc, phase, bank, err, nops, snap, rt, log, written, lastop

vars == <<fs, fs0, input, pc, phase, bank, err, nops, snap, rt, log, written, lastop>>

\* ------------------------------------------------------------------ bounds
\* Number of print_list / extract / update / empty calls explored per session.
MaxOps == 2

\* ------------------------------------------------------------- primitives
None == [none |-> TRUE]

Min(a, b) == IF a < b THEN a ELSE b

MAGIC_DIDX == 1480870212

MAGIC_AUDIO == 1096040772

\* pack('<I', v): four little-endian bytes.
Pack(v) == << v % 256, (v \div 256) % 256, (v \div 65536) % 256, (v \div 16777216) % 256 >>

\* unpack('<I', ...) of the four bytes of bs that follow index k.
Unpack(bs, k) == bs[k + 1] + 256 * bs[k + 2] + 65536 * bs[k + 3] + 16777216 * bs[k + 4]

\* file.read(n) at position pos: returns what is there, possibly fewer bytes.
Read(f, pos, n) == SubSeq(f, pos + 1, Min(pos + n, Len(f)))

Digits == << "0", "1", "2", "3", "4", "5", "6", "7", "8", "9" >>

DigitVal(c) == CHOOSE d \in 0..9 : Digits[d + 1] = c

IsDigit(c) == \E d \in 0..9 : Digits[d + 1] = c

RECURSIVE StrOf(_)
\* str(id) of a non-negative int: canonical decimal digits.
StrOf(n) == IF n < 10 THEN << Digits[n + 1] >> ELSE StrOf(n \div 10) \o << Digits[(n % 10) + 1] >>

\* Whether int(s) succeeds (digit strings only; the model's alphabet has no
\* sign, blank or underscore).
IntOk(s) == Len(s) > 0 /\ \A i \in 1..Len(s) : IsDigit(s[i])

RECURSIVE IntOf(_)
\* int(id) of a digit string.
IntOf(s) == IF Len(s) = 0 THEN 0 ELSE 10 * IntOf(SubSeq(s, 1, Len(s) - 1)) + DigitVal(s[Len(s)])

\* f'{i:03d}'
Fmt03(i) == LET s == StrOf(i) IN IF Len(s) >= 3 THEN s ELSE IF Len(s) = 2 THEN << "0" >> \o s ELSE << "0", "0" >> \o s

\* Index of the last '.' of p, 0 if none.
LastDot(p) == IF \E i \in 1..Len(p) : p[i] = "." THEN CHOOSE i \in 1..Len(p) : p[i] = "." /\ \A j \in (i + 1)..Len(p) : p[j] # "." ELSE 0

\* os.path.splitext(p)[0] for a name without directory separators: cut at the
\* last dot unless only dots precede it.
SplitextRoot(p) == LET d == LastDot(p) IN IF d > 0 /\ \E j \in 1..(d - 1) : p[j] # "." THEN SubSeq(p, 1, d - 1) ELSE p

WemExt == << ".", "w", "e", "m" >>

\* f'{id}.wem'
WemPath(id) == id \o WemExt

\* f'{self.file}.{i:03d}'
BackupPath(file, i) == file \o << "." >> \o Fmt03(i)

\* ------------------------------------------------- OrderedDict of AudioItem
AudioItem(id, len, data) == [id |-> id, len |-> len, data |-> data]

Keys(d) == [i \in 1..Len(d) |-> d[i].id]

HasKey(d, k) == \E i \in 1..Len(d) : d[i].id = k

IndexOf(d, k) == CHOOSE i \in 1..Len(d) : d[i].id = k

\* Variant: re-assigning an existing key moves it to the end.
DictSetMoveToEnd(d, k, len, data) == Append(SelectSeq(d, LAMBDA x : x.id # k), AudioItem(k, len, data))

\* audio_items[k] = AudioItem(len, data): an existing key keeps its position,
\* a new key is appended.
DictSet(d, k, len, data) == IF HasKey(d, k) THEN [d EXCEPT ![IndexOf(d, k)] = AudioItem(k, len, data)] ELSE Append(d, AudioItem(k, len, data))

\* -audio.len % 16
Padding(len) == (16 - (len % 16)) % 16

\* ------------------------------------------------------------------ _parse
Fail(e) == [err |-> e]

RECURSIVE ReadHeaderWords(_, _, _)
\* while current_pos < self.header[1] + 8: read one more word
ReadHeaderWords(f, pos, header) ==
    IF pos < header[2] + 8
    THEN IF Len(Read(f, pos, 4)) < 4 THEN Fail("struct.error")
         ELSE ReadHeaderWords(f, pos + 4, Append(header, Unpack(f, pos)))
    ELSE [err |-> "none", header |-> header, pos |-> pos]

RECURSIVE ReadEntries(_, _, _, _)
\* for _ in range(num_items): read (id, offset, length), keep id and length
ReadEntries(f, pos, n, items) ==
    IF n = 0 THEN [err |-> "none", items |-> items, pos |-> pos]
    ELSE IF Len(Read(f, pos, 12)) < 12 THEN Fail("struct.error")
    ELSE ReadEntries(f, pos + 12, n - 1, DictSet(items, StrOf(Unpack(f, pos)), Unpack(f, pos + 8), << >>))

RECURSIVE ReadData(_, _, _, _, _)
\* for audio in audio_items.values(): skip padding, read audio.len bytes
ReadData(f, pos, items, i, padding) ==
    IF i > Len(items) THEN [err |-> "none", items |-> items, pos |-> pos]
    ELSE LET p1 == Min(pos + padding, Len(f))
             chunk == Read(f, p1, items[i].len)
         IN IF Len(chunk) < items[i].len THEN Fail("EOFError")
            ELSE ReadData(f, p1 + items[i].len, [items EXCEPT ![i].data = chunk], i + 1, Padding(items[i].len))

\* InstrumentBank._parse on the bytes f of the bank file.
Parse(f) ==
    IF Len(Read(f, 0, 16)) < 16 THEN Fail("struct.error")
    ELSE LET h == ReadHeaderWords(f, 16, << Unpack(f, 0), Unpack(f, 4), Unpack(f, 8), Unpack(f, 12) >>)
         IN IF h.err # "none" THEN h
            ELSE IF Len(Read(f, h.pos, 8)) < 8 THEN Fail("struct.error")
            ELSE IF Unpack(f, h.pos) # MAGIC_DIDX THEN Fail("ValueError")
            ELSE LET e == ReadEntries(f, h.pos + 8, Unpack(f, h.pos + 4) \div 12, << >>)
                 IN IF e.err # "none" THEN e
                    ELSE IF Len(Read(f, e.pos, 8)) < 8 THEN Fail("struct.error")
                    ELSE IF Unpack(f, e.pos) # MAGIC_AUDIO THEN Fail("ValueError")
                    ELSE LET a == ReadData(f, e.pos + 8, e.items, 1, 0)
                         IN IF a.err # "none" THEN a
                            ELSE [err |-> "none", header |-> h.header, items |-> a.items,
                                  trailing |-> Read(f, a.pos, Len(f)), dirty |-> FALSE]

\* ----------------------------------------------------------------- to_file
\* Variant: the offset advances by the bare length.
NextOffsetUnpadded(offset, len) == offset + len

\* offset += audio.len + padding
NextOffset(offset, len) == offset + len + Padding(len)

\* (audio.len + 15) & ~15
RoundUp16(len) == ((len + 15) \div 16) * 16

RECURSIVE SumRounded(_, _)
SumRounded(items, i) == IF i > Len(items) THEN 0 ELSE RoundUp16(items[i].len) + SumRounded(items, i + 1)

\* Variant: the padding of the last item is not subtracted.
ChunkLengthNoSub(items) == SumRounded(items, 1)

\* length = sum((audio.len + 15) & ~15 ...) - padding, where padding is the
\* value the index loop left behind: the padding of the last item.
ChunkLength(items) == SumRounded(items, 1) - Padding(items[Len(items)].len)

Zeros(n) == [i \in 1..n |-> 0]

RECURSIVE PackAll(_, _)
\* outfile.writelines(pack('<I', i) for i in self.header)
PackAll(ws, i) == IF i > Len(ws) THEN << >> ELSE Pack(ws[i]) \o PackAll(ws, i + 1)

RECURSIVE WriteEntries(_, _, _, _)
\* the DIDX loop: pack('<III', int(id), offset, audio.len); int(id) may raise
WriteEntries(items, i, offset, out) ==
    IF i > Len(items) THEN [err |-> "none", bytes |-> out]
    ELSE IF ~IntOk(items[i].id) THEN [err |-> "ValueError", bytes |-> out]
    ELSE WriteEntries(items, i + 1, NextOffset(offset, items[i].len),
                      out \o Pack(IntOf(items[i].id)) \o Pack(offset) \o Pack(items[i].len))

RECURSIVE WriteData(_, _, _)
\* the audio loop: padding of the previous item, then the item's bytes
WriteData(items, i, padding) ==
    IF i > Len(items) THEN << >>
    ELSE Zeros(padding) \o items[i].data \o WriteData(items, i + 1, Padding(items[i].len))

\* InstrumentBank.to_file: the bytes that reach the file and the exception, if
\* any, that ends the call (what was written before it stays in the file).
ToFileBytes(b) ==
    LET head == PackAll(b.header, 1) \o Pack(MAGIC_DIDX) \o Pack(Len(b.items) * 12)
        e == WriteEntries(b.items, 1, 0, head)
    IN IF e.err # "none" THEN e
       ELSE IF Len(b.items) = 0 THEN [err |-> "UnboundLocalError", bytes |-> e.bytes]
       ELSE [err |-> "none",
             bytes |-> e.bytes \o Pack(MAGIC_AUDIO) \o Pack(ChunkLength(b.items))
                       \o WriteData(b.items, 1, 0) \o b.trailing]

\* ------------------------------------------------------------------- close
\* Variant: the backup number is always 0.
BackupIndexZero(files, file) == 0

\* i = 0; while exists(f'{self.file}.{i:03d}'): i += 1
BackupIndex(files, file) == CHOOSE i \in 0..Cardinality(DOMAIN files) : BackupPath(file, i) \notin DOMAIN files /\ \A j \in 0..(i - 1) : BackupPath(file, j) \in DOMAIN files

\* A file system with path p holding bytes c.
WriteFile(files, p, c) == [q \in DOMAIN files \cup {p} |-> IF q = p THEN c ELSE files[q]]

\* os.rename(src, dst): dst takes src's bytes (replacing what was there),
\* src disappears.
Rename(files, src, dst) == [q \in (DOMAIN files \cup {dst}) \ {src} |-> IF q = dst THEN files[src] ELSE files[q]]

\* Variant: the item is replaced but dirty is left alone.
MutateKeepDirty(b, id, len, data) == [b EXCEPT !.items = DictSet(b.items, id, len, data)]

\* self.audio_items[id] = AudioItem(...); self.dirty = True
Mutate(b, id, len, data) == [b EXCEPT !.items = DictSet(b.items, id, len, data), !.dirty = TRUE]

\* ------------------------------------------------------- loops of the API
RECURSIVE ExtractLoop(_, _, _, _)
\* extract: for file in files: audio = self.audio_items[id]; write f'{id}.wem'
ExtractLoop(files, items, names, i) ==
    IF i > Len(names) THEN [err |-> "none", fs |-> files]
    ELSE LET id == SplitextRoot(names[i])
         IN IF ~HasKey(items, id) THEN [err |-> "KeyError", fs |-> files]
            ELSE ExtractLoop(WriteFile(files, WemPath(id), items[IndexOf(items, id)].data), items, names, i + 1)

\* files = (f"{id}.wem" for id in self.audio_items) when no name is given
ExtractNames(items, names) == IF Len(names) = 0 THEN [i \in 1..Len(items) |-> WemPath(items[i].id)] ELSE names

RECURSIVE UpdateLoop(_, _, _, _)
\* update: for file in to_update: read the file, replace or insert the item
UpdateLoop(files, b, names, i) ==
    IF i > Len(names) THEN [err |-> "none", bank |-> b, done |-> i - 1]
    ELSE IF names[i] \notin DOMAIN files THEN [err |-> "FileNotFoundError", bank |-> b, done |-> i - 1]
    ELSE UpdateLoop(files, Mutate(b, SplitextRoot(names[i]), Len(files[names[i]]), files[names[i]]), names, i + 1)

RECURSIVE EmptyLoop(_, _, _)
\* empty: for name in remove_list: audio_items[id] = AudioItem(0, array('b'))
EmptyLoop(b, names, i) ==
    IF i > Len(names) THEN [err |-> "none", bank |-> b, done |-> i - 1]
    ELSE EmptyLoop(Mutate(b, SplitextRoot(names[i]), 0, << >>), names, i + 1)

\* ------------------------------------------------------------------ inputs
BankPath == << "b", ".", "b", "n", "k" >>

OutPath == << "o", ".", "b", "n", "k" >>

N1 == << "1", ".", "w", "e", "m" >>

N2 == << "2", ".", "w", "e", "m" >>

N9 == << "9", ".", "w", "e", "m" >>

NX == << "x", ".", "w", "e", "m" >>

N01 == << "0", "1", ".", "w", "e", "m" >>

\* Payload bytes, all non-zero so that they differ from padding.
DataBytes(seed, len) == [j \in 1..len |-> ((seed * 37 + j * 3) % 255) + 1]

\* Name lists handed to extract / update / empty.
NameLists == { << N1 >>, << N2 >>, << N9 >>, << NX >>, << N01 >>, << N1, N2 >>, << N9, N1 >> }

\* The .wem files lying next to the bank when the session starts (2.wem is
\* missing).
WemFiles == (N1 :> DataBytes(101, 5)) @@ (N9 :> DataBytes(109, 17)) @@ (NX :> DataBytes(120, 3)) @@ (N01 :> DataBytes(201, 1))

E(id, len) == [id |-> id, len |-> len]

L0 == << >>

L1 == << E(1, 10) >>

L2 == << E(1, 10), E(2, 20), E(3, 0) >>

L3 == << E(2, 0), E(1, 17) >>

L4 == << E(1, 10), E(2, 0) >>

Layouts == { L0, L1, L2, L3, L4 }

\* Layout used for cut files only: padding followed by a non-empty item.
LT == << E(1, 10), E(2, 3) >>

Desc(entries, extra, trailing, adj, m1, m2, cut, backups) == [entries |-> entries, extra |-> extra, trailing |-> trailing, adj |-> adj, m1 |-> m1, m2 |-> m2, cut |-> cut, backups |-> backups]

RECURSIVE BuildIndex(_, _, _)
BuildIndex(es, i, offset) == IF i > Len(es) THEN << >> ELSE Pack(es[i].id) \o Pack(offset) \o Pack(es[i].len) \o BuildIndex(es, i + 1, offset + RoundUp16(es[i].len))

RECURSIVE BuildData(_, _)
BuildData(es, i) == IF i > Len(es) THEN << >> ELSE DataBytes(es[i].id, es[i].len) \o (IF i < Len(es) THEN Zeros(Padding(es[i].len)) ELSE << >>) \o BuildData(es, i + 1)

\* A bank file laid out as _parse reads it, without the trailing bytes:
\* preamble, extra header words, DIDX chunk, DATA chunk.
BuildBody(d) ==
    Pack(1145588546) \o Pack(8 + 4 * Len(d.extra)) \o Pack(134) \o Pack(99) \o PackAll(d.extra, 1)
    \o Pack(d.m1) \o Pack(12 * Len(d.entries) + d.adj) \o BuildIndex(d.entries, 1, 0)
    \o Pack(d.m2) \o Pack(Len(BuildData(d.entries, 1))) \o BuildData(d.entries, 1)

\* Bytes the format declares before the trailing data.
Need(d) == Len(BuildBody(d))

\* The input file: the whole layout, or its first d.cut bytes.
Build(d) == IF d.cut < 0 THEN BuildBody(d) \o d.trailing ELSE SubSeq(BuildBody(d) \o d.trailing, 1, d.cut)

Complete == { Desc(l, << >>, << >>, 0, MAGIC_DIDX, MAGIC_AUDIO, -1, {}) : l \in Layouts } \cup { Desc(l, << 7 >>, << 170, 187 >>, 0, MAGIC_DIDX, MAGIC_AUDIO, -1, {}) : l \in Layouts }

WithBackups == { Desc(L1, << >>, << >>, 0, MAGIC_DIDX, MAGIC_AUDIO, -1, b) : b \in { {0}, {1}, {0, 1} } }

Malformed == { Desc(L1, << >>, << >>, 0, 0, MAGIC_AUDIO, -1, {}), Desc(L1, << >>, << >>, 0, MAGIC_DIDX, 0, -1, {}) }
             \cup { Desc(l, << >>, << 170 >>, a, MAGIC_DIDX, MAGIC_AUDIO, -1, {}) : l \in { L1, L4 }, a \in { 1, 11 } }

Truncated == { Desc(LT, << 7 >>, << >>, 0, MAGIC_DIDX, MAGIC_AUDIO, c, {}) : c \in 0..(Need(Desc(LT, << 7 >>, << >>, 0, MAGIC_DIDX, MAGIC_AUDIO, -1, {})) - 1) }
             \cup { Desc(L4, << >>, << >>, 0, MAGIC_DIDX, MAGIC_AUDIO, c, {}) : c \in 0..(Need(Desc(L4, << >>, << >>, 0, MAGIC_DIDX, MAGIC_AUDIO, -1, {})) - 1) }

Inputs == Complete \cup WithBackups \cup Malformed \cup Truncated

\* The directory at the start of a session.
InitialFiles(d) == [q \in DOMAIN WemFiles \cup {BankPath} \cup { BackupPath(BankPath, i) : i \in d.backups } |->
                      IF q = BankPath THEN Build(d) ELSE IF q \in DOMAIN WemFiles THEN WemFiles[q] ELSE << 66, 75 >>]

BankOf(r) == [header |-> r.header, items |-> r.items, trailing |-> r.trailing, dirty |-> r.dirty]

Init ==
    /\ input \in Inputs
    /\ fs = InitialFiles(input)
    /\ fs0 = fs
    /\ pc = "start"
    /\ phase = 0
    /\ bank = None
    /\ err = "none"
    /\ nops = 0
    /\ snap = None
    /\ rt = None
    /\ log = << >>
    /\ written = FALSE
    /\ lastop = [op |-> "none", names |-> << >>]

\* ----------------------------------------------------------------- actions
RECURSIVE LogIds(_, _, _, _)
\* History: ids in order of first appearance (parse order, then insertions).
LogIds(l, names, i, done) ==
    IF i > done THEN l
    ELSE LET id == SplitextRoot(names[i])
         IN LogIds(IF \E k \in 1..Len(l) : l[k] = id THEN l ELSE Append(l, id), names, i + 1, done)

\* An exception leaves the with-block: __exit__ runs next.
After(e) == IF e = "none" THEN "body" ELSE "exit"

\* InstrumentBank(args.bank): __init__ runs _parse; if it raises, no object
\* exists and the with-block (hence __exit__) is never entered.
Open ==
    /\ pc = "start"
    /\ LET r == Parse(fs[BankPath])
       IN IF r.err = "none"
          THEN bank' = BankOf(r) /\ pc' = "body" /\ err' = err /\ log' = Keys(r.items)
          ELSE bank' = bank /\ pc' = "done" /\ err' = r.err /\ log' = log
    /\ lastop' = [op |-> "open", names |-> << >>]
    /\ UNCHANGED <<fs, fs0, input, phase, nops, snap, rt, written>>

\* bank.print_list(): prints only.
DoPrintList ==
    /\ pc = "body"
    /\ lastop' = [op |-> "list", names |-> << >>]
    /\ UNCHANGED <<fs, fs0, input, pc, bank, err, snap, rt, log, written>>

\* bank.extract(names): an empty list extracts every item.
DoExtract(names) ==
    /\ pc = "body"
    /\ LET r == ExtractLoop(fs, bank.items, ExtractNames(bank.items, names), 1)
       IN fs' = r.fs /\ err' = r.err /\ pc' = After(r.err)
    /\ lastop' = [op |-> "extract", names |-> names]
    /\ UNCHANGED <<fs0, input, bank, snap, rt, log, written>>

\* bank.update(names)
DoUpdate(names) ==
    /\ pc = "body"
    /\ LET r == UpdateLoop(fs, bank, names, 1)
       IN /\ bank' = r.bank /\ err' = r.err /\ pc' = After(r.err)
          /\ log' = LogIds(log, names, 1, r.done)
          /\ written' = (written \/ r.done > 0)
    /\ lastop' = [op |-> "update", names |-> names]
    /\ UNCHANGED <<fs, fs0, input, snap, rt>>

\* bank.empty(names)
DoEmpty(names) ==
    /\ pc = "body"
    /\ LET r == EmptyLoop(bank, names, 1)
       IN /\ bank' = r.bank /\ err' = r.err /\ pc' = After(r.err)
          /\ log' = LogIds(log, names, 1, r.done)
          /\ written' = (written \/ r.done > 0)
    /\ lastop' = [op |-> "empty", names |-> names]
    /\ UNCHANGED <<fs, fs0, input, snap, rt>>

\* The class used as a library: calls in any order.
PrintList == nops < MaxOps /\ DoPrintList /\ nops' = nops + 1 /\ UNCHANGED phase

Extract(names) == nops < MaxOps /\ DoExtract(names) /\ nops' = nops + 1 /\ UNCHANGED phase

Update(names) == nops < MaxOps /\ DoUpdate(names) /\ nops' = nops + 1 /\ UNCHANGED phase

Empty(names) == nops < MaxOps /\ DoEmpty(names) /\ nops' = nops + 1 /\ UNCHANGED phase

\* bank.to_file(path) called by a user of the class, on another path.
ToFile ==
    /\ pc = "body" /\ snap = None
    /\ LET r == ToFileBytes(bank)
       IN /\ fs' = WriteFile(fs, OutPath, r.bytes)
          /\ snap' = [bank |-> bank, path |-> OutPath, err |-> r.err]
          /\ err' = r.err /\ pc' = After(r.err)
    /\ lastop' = [op |-> "to_file", names |-> << >>]
    /\ UNCHANGED <<fs0, input, phase, bank, nops, rt, log, written>>

\* InstrumentBank(path) on the file to_file wrote: the round trip.
Reparse ==
    /\ pc = "body" /\ snap # None /\ rt = None
    /\ LET r == Parse(fs[OutPath])
       IN rt' = r /\ err' = r.err /\ pc' = After(r.err)
    /\ lastop' = [op |-> "reparse", names |-> << >>]
    /\ UNCHANGED <<fs, fs0, input, phase, bank, nops, snap, log, written>>

\* __main__: list, extract, update, empty, each at most once, in this order.
MainList == phase < 1 /\ DoPrintList /\ phase' = 1 /\ UNCHANGED nops

MainExtract(names) == phase < 2 /\ DoExtract(names) /\ phase' = 2 /\ UNCHANGED nops

MainUpdate(names) == phase < 3 /\ DoUpdate(names) /\ phase' = 3 /\ UNCHANGED nops

MainEmpty(names) == phase < 4 /\ DoEmpty(names) /\ phase' = 4 /\ UNCHANGED nops

\* The with-block ends normally.
ExitBody ==
    /\ pc = "body" /\ pc' = "exit"
    /\ UNCHANGED <<fs, fs0, input, phase, bank, err, nops, snap, rt, log, written, lastop>>

\* close() with dirty false.
CloseClean ==
    /\ pc = "exit" /\ ~bank.dirty /\ pc' = "done"
    /\ lastop' = [op |-> "close", names |-> << >>]
    /\ UNCHANGED <<fs, fs0, input, phase, bank, err, nops, snap, rt, log, written>>

\* close() with dirty true, first half: the rename to the backup path.
CloseRename ==
    /\ pc = "exit" /\ bank.dirty /\ pc' = "closing"
    /\ fs' = Rename(fs, BankPath, BackupPath(BankPath, BackupIndex(fs, BankPath)))
    /\ lastop' = [op |-> "rename", names |-> << >>]
    /\ UNCHANGED <<fs0, input, phase, bank, err, nops, snap, rt, log, written>>

\* close() with dirty true, second half: self.to_file(self.file).
CloseWrite ==
    /\ pc = "closing" /\ pc' = "done"
    /\ LET r == ToFileBytes(bank)
       IN /\ fs' = WriteFile(fs, BankPath, r.bytes)
          /\ snap' = [bank |-> bank, path |-> BankPath, err |-> r.err]
    /\ lastop' = [op |-> "close", names |-> << >>]
    /\ UNCHANGED <<fs0, input, phase, bank, err, nops, rt, log, written>>

Close == CloseClean \/ CloseRename \/ CloseWrite

Next ==
    \/ Open
    \/ PrintList
    \/ \E names \in NameLists \cup { << >> } : Extract(names)
    \/ \E names \in NameLists \cup { << >> } : Update(names)
    \/ \E names \in NameLists \cup { << >> } : Empty(names)
    \/ ToFile
    \/ Reparse
    \/ ExitBody
    \/ Close

Spec == Init /\ [][Next]_vars

NextMain ==
    \/ Open
    \/ MainList
    \/ \E names \in NameLists \cup { << >> } : MainExtract(names)
    \/ \E names \in NameLists \cup { << >> } : MainUpdate(names)
    \/ \E names \in NameLists \cup { << >> } : MainEmpty(names)
    \/ ExitBody
    \/ Close

SpecMain == Init /\ [][NextMain]_vars

\* ------------------------------------------------------------------ claims
\* What a written bank file says about itself, read back from its bytes.
IndexPos(b) == 4 * Len(b.header) + 8

DataDescPos(b) == IndexPos(b) + 12 * Len(b.items)

DataStart(b) == DataDescPos(b) + 8

DeclaredLength(f, b) == Unpack(f, DataDescPos(b) + 4)

WrittenOffset(f, b, i) == Unpack(f, IndexPos(b) + 12 * (i - 1) + 4)

RECURSIVE PayloadBytes(_, _)
\* Item lengths plus the padding after every item but the last.
PayloadBytes(items, i) == IF i > Len(items) THEN 0 ELSE items[i].len + (IF i < Len(items) THEN Padding(items[i].len) ELSE 0) + PayloadBytes(items, i + 1)

Lens(items) == [i \in 1..Len(items) |-> items[i].len]

Serialized == snap # None /\ snap.err = "none"

SameBank(a, b) == a.header = b.header /\ a.items = b.items /\ a.trailing = b.trailing

\* C1: round trip. Every to_file call on a bank that parsing and update/empty
\* calls produced succeeds, and parsing what it wrote gives a bank with the
\* same header words, item ids in the same order, lengths, bytes and trailing.
C1_RoundTrip ==
    /\ (snap # None /\ snap.path = OutPath) => snap.err = "none"
    /\ (rt # None /\ snap.path = OutPath) => (rt.err = "none" /\ SameBank(rt, snap.bank))

\* C2: empty on an id that is not in the mapping fails with an unknown-item
\* error and leaves the mapping and the dirty flag as they were.
C2_EmptyUnknownFails ==
    [][(pc = "body" /\ nops' = nops + 1 /\ lastop'.op = "empty" /\ Len(lastop'.names) = 1
        /\ ~HasKey(bank.items, SplitextRoot(lastop'.names[1])))
       => (err' = "KeyError" /\ bank' = bank)]_vars

\* C3: the ids are enumerated in parse order followed by the inserted ids in
\* order of first insertion, whatever updates and empties were applied, and
\* after empty(id) the id is listed with length 0 and no data.
C3_OrderPreserved ==
    bank # None =>
        /\ Keys(bank.items) = log
        /\ Len(log) >= Len(input.entries)
        /\ \A i \in 1..Len(input.entries) : log[i] = StrOf(input.entries[i].id)
        /\ (lastop.op = "empty" =>
               \A k \in 1..Len(lastop.names) :
                   /\ HasKey(bank.items, SplitextRoot(lastop.names[k]))
                   /\ bank.items[IndexOf(bank.items, SplitextRoot(lastop.names[k]))].len = 0
                   /\ bank.items[IndexOf(bank.items, SplitextRoot(lastop.names[k]))].data = << >>)

C3_Witness ==
    /\ bank # None /\ input.entries = L2 /\ lastop = [op |-> "empty", names |-> << N1 >>]
    /\ Len(bank.items) > 3 /\ bank.items[1].id = << "1" >> /\ bank.items[1].len = 0 /\ bank.dirty

\* C4: the DATA chunk length to_file writes equals the number of bytes it
\* writes between the descriptor and the trailing data: the item lengths plus
\* the padding after every item but the last; 48 for lengths 10, 20, 0.
C4_ChunkLength ==
    Serialized =>
        LET f == fs[snap.path]
            b == snap.bank
        IN /\ DeclaredLength(f, b) = Len(f) - DataStart(b) - Len(b.trailing)
           /\ DeclaredLength(f, b) = PayloadBytes(b.items, 1)
           /\ (Lens(b.items) = << 10, 20, 0 >> => DeclaredLength(f, b) = 48)

C4_Witness == Serialized /\ Lens(snap.bank.items) = << 10, 20, 0 >> /\ DeclaredLength(fs[snap.path], snap.bank) = 48

\* C5: every offset to_file writes in the index is a multiple of 16 and is the
\* position, counted from the start of the DATA chunk's data, where the item's
\* bytes are in the file, zero-length items included.
C5_Offsets ==
    Serialized =>
        LET f == fs[snap.path]
            b == snap.bank
        IN \A i \in 1..Len(b.items) :
               LET off == WrittenOffset(f, b, i)
               IN /\ off % 16 = 0
                  /\ SubSeq(f, DataStart(b) + off + 1, DataStart(b) + off + b.items[i].len) = b.items[i].data
                  /\ off = (IF i = 1 THEN 0 ELSE WrittenOffset(f, b, i - 1) + b.items[i - 1].len + Padding(b.items[i - 1].len))
                  /\ DataStart(b) + off + b.items[i].len <= Len(f) - Len(b.trailing)

C5_Witness ==
    /\ Serialized /\ Len(snap.bank.items) >= 3
    /\ snap.bank.items[1].len = 0 /\ snap.bank.items[2].len = 5 /\ snap.bank.items[3].len = 17
    /\ WrittenOffset(fs[snap.path], snap.bank, 3) = 16

BackupPaths == { BackupPath(BankPath, i) : i \in 0..3 }

\* The bank file or its backups differ from what the session found.
Persisted == BankPath \notin DOMAIN fs \/ fs[BankPath] # fs0[BankPath] \/ \E q \in BackupPaths : q \in DOMAIN fs /\ q \notin DOMAIN fs0

\* C6: in a session of the command-line tool the bank file is renamed and
\* written only once all requested operations are over, and not at all when
\* one of them failed.
C6_NoPartialPersistence ==
    /\ Persisted => pc \in { "closing", "done" }
    /\ err # "none" => ~Persisted

\* C7: a bank file whose DIDX chunk length is not a multiple of 12 is
\* rejected with a format error and gives no Bank.
C7_IndexLengthChecked ==
    LET f == fs0[BankPath]
    IN (pc # "start" /\ input.cut < 0 /\ Unpack(f, 16 + 4 * Len(input.extra)) = MAGIC_DIDX
        /\ Unpack(f, 16 + 4 * Len(input.extra) + 4) % 12 # 0)
       => (bank = None /\ err = "ValueError")

\* C8: a bank file that ends before the bytes its layout declares (header,
\* descriptors, index entries, payloads, padding between items) is rejected
\* with a truncated-input error.
C8_TruncationDetected ==
    (pc # "start" /\ input.cut >= 0 /\ input.cut < Need(input))
    => (bank = None /\ err \in { "struct.error", "EOFError" })

\* C9: close() changes the files if and only if dirty is true; it first
\* renames the bank file to the backup path with the smallest free number,
\* leaving every other file as it was, and only then writes to_file's output
\* to the bank's path; nothing but close() touches the bank file.
C9_SaveProtocol ==
    [][/\ (pc = "exit" /\ pc' # pc) => ((fs' # fs) <=> bank.dirty)
       /\ (pc = "exit" /\ pc' # pc /\ bank.dirty) =>
              /\ pc' = "closing"
              /\ \E i \in 0..3 :
                     /\ BackupPath(BankPath, i) \notin DOMAIN fs
                     /\ \A j \in 0..(i - 1) : BackupPath(BankPath, j) \in DOMAIN fs
                     /\ DOMAIN fs' = (DOMAIN fs \ {BankPath}) \cup {BackupPath(BankPath, i)}
                     /\ fs'[BackupPath(BankPath, i)] = fs0[BankPath]
              /\ \A q \in DOMAIN fs \ {BankPath} : fs'[q] = fs[q]
       /\ (pc = "closing" /\ pc' # pc) =>
              /\ pc' = "done"
              /\ DOMAIN fs' = DOMAIN fs \cup {BankPath}
              /\ \A q \in DOMAIN fs : fs'[q] = fs[q]
              /\ snap'.path = BankPath /\ snap'.bank = bank
              /\ fs'[BankPath] = ToFileBytes(bank).bytes
       /\ (BankPath \in DOMAIN fs /\ BankPath \in DOMAIN fs' /\ fs'[BankPath] = fs[BankPath]) \/ pc \in { "exit", "closing" }
      ]_vars

C9_Witness ==
    /\ pc = "done" /\ bank # None /\ bank.dirty /\ input.backups = {0}
    /\ BackupPath(BankPath, 1) \in DOMAIN fs /\ fs[BackupPath(BankPath, 1)] = fs0[BankPath]
    /\ fs[BackupPath(BankPath, 0)] = fs0[BackupPath(BankPath, 0)]
    /\ fs[BankPath] # fs0[BankPath] /\ snap.err = "none"

\* C10: dirty is true exactly when update or empty has written an item since
\* parse; print_list and extract, failing or not, leave the bank as it was;
\* every item's data has the recorded length.
C10_DirtyAndReadOnly ==
    [][/\ bank' # None =>
              /\ bank'.dirty <=> written'
              /\ \A i \in 1..Len(bank'.items) : Len(bank'.items[i].data) = bank'.items[i].len
       /\ (nops' = nops + 1 /\ lastop'.op \in { "list", "extract" }) => bank' = bank
      ]_vars

C10_Witness == pc = "exit" /\ err = "KeyError" /\ lastop.op = "extract" /\ bank.dirty /\ written

====
